---------------------------- MODULE Spec2Model ----------------------------
(***************************************************************************)
(* Model of src/app.py: the athlete performance dashboard.                 *)
(*                                                                         *)
(*  - time_to_seconds and event_to_meters, the two text-to-number parsers, *)
(*    as operators over Python strings (tuples of one-character strings);  *)
(*  - the render pass of main(): the session's sort key, the column        *)
(*    buttons, DataFrame.sort_values and the table that is displayed.      *)
(*                                                                         *)
(* Numbers are exact decimals, a whole part and a fraction in units of     *)
(* 1/Scale; the binary rounding of Python floats is not modelled.  A       *)
(* Python exception is the value Raise, a float NaN (and pandas NaT) the   *)
(* value NaN.                                                              *)
(***************************************************************************)
EXTENDS Integers, Sequences, FiniteSets

VARIABLES
    sort,      \* st.session_state.sort: [column, ascending]
    df,        \* the selected athlete's records (rows of the DataFrame)
    clicked,   \* the column button that returned True in the last run
    shown,     \* the rows handed to make_non_interactive_table, in order
    warned,    \* st.error("Sorting error: ...") was called in the last run
    status,    \* how the last run of main() ended
    fn,        \* parser call: which function was called ("none" before)
    arg,       \* parser call: the argument
    ret        \* parser call: the returned value

vars == <<sort, df, clicked, shown, warned, status, fn, arg, ret>>

-----------------------------------------------------------------------------
(* Bounds *)

\* Longest enumerated input string of a parser call.
MaxLen == 5

\* Most records of the selected athlete.
MaxRecords == 3

-----------------------------------------------------------------------------
(* Python values *)

\* Fraction units per 1 (second, meter): a string of MaxLen characters holds
\* at most MaxLen - 1 fraction digits, so every enumerated decimal is exact.
Scale == 10 ^ (MaxLen - 1)

Raise == [k |-> "raise"]
NaN == [k |-> "nan"]
\* The number w + f/Scale, 0 <= f < Scale.
Num(w, f) == [k |-> "num", w |-> w, f |-> f]

\* The number w + f/Scale for any f >= 0.
Carry(w, f) == Num(w + f \div Scale, f % Scale)

IsNum(x) == x.k = "num"

\* A float (or int) object: what a Python caller can do arithmetic on.
IsFloat(x) == x.k \in {"num", "nan"}

\* JSON values as json.load returns them.
Str(s) == [t |-> "str", s |-> s]
JNum(n) == [t |-> "int", n |-> n]
JNull == [t |-> "null"]

DigitSeq == <<"0", "1", "2", "3", "4", "5", "6", "7", "8", "9">>

Digits == {DigitSeq[i] : i \in 1..10}

DigitVal(c) == (CHOOSE i \in 1..10 : DigitSeq[i] = c) - 1

RECURSIVE NatDigits(_)
NatDigits(n) ==
    IF n < 10 THEN <<DigitSeq[n + 1]>>
    ELSE NatDigits(n \div 10) \o <<DigitSeq[(n % 10) + 1]>>

\* str(x)
PyStr(x) ==
    CASE x.t = "str" -> x.s
      [] x.t = "int" -> NatDigits(x.n)
      [] x.t = "null" -> <<"N", "o", "n", "e">>

-----------------------------------------------------------------------------
(* Python string methods *)

RECURSIVE LStrip(_)
LStrip(s) == IF s # <<>> /\ Head(s) = " " THEN LStrip(Tail(s)) ELSE s

RECURSIVE RStrip(_)
RStrip(s) ==
    IF s # <<>> /\ s[Len(s)] = " " THEN RStrip(SubSeq(s, 1, Len(s) - 1)) ELSE s

\* str.strip()
Strip(s) == RStrip(LStrip(s))

\* str.replace(a, b) for one-character a and b
ReplaceChar(s, a, b) == [i \in 1..Len(s) |-> IF s[i] = a THEN b ELSE s[i]]

\* str.replace(a, "")
RemoveChar(s, a) == LET Keep(c) == c # a IN SelectSeq(s, Keep)

\* a in s
Contains(s, a) == \E i \in 1..Len(s) : s[i] = a

FirstIndex(s, a) == CHOOSE i \in 1..Len(s) : s[i] = a /\ \A j \in 1..(i - 1) : s[j] # a

\* str.split(a, 1): one piece when a does not occur, else two
SplitOnce(s, a) ==
    IF ~Contains(s, a) THEN <<s>>
    ELSE LET i == FirstIndex(s, a)
         IN <<SubSeq(s, 1, i - 1), SubSeq(s, i + 1, Len(s))>>

\* re.split on one separator character: every piece, empty ones included
RECURSIVE SplitAll(_, _)
SplitAll(s, a) ==
    IF ~Contains(s, a) THEN <<s>>
    ELSE LET i == FirstIndex(s, a)
         IN <<SubSeq(s, 1, i - 1)>> \o SplitAll(SubSeq(s, i + 1, Len(s)), a)

NonEmpty(p) == p # <<>>

\* str.split(): the runs of non-whitespace characters
WhitespaceSplit(s) == SelectSeq(SplitAll(s, " "), NonEmpty)

AllDigits(s) == \A i \in 1..Len(s) : s[i] \in Digits

RECURSIVE DigitsValue(_)
DigitsValue(s) ==
    IF s = <<>> THEN 0
    ELSE 10 * DigitsValue(SubSeq(s, 1, Len(s) - 1)) + DigitVal(s[Len(s)])

\* The value of the fraction digits s, in units of 1/Scale.
RECURSIVE FracValue(_, _)
FracValue(s, unit) ==
    IF s = <<>> THEN 0
    ELSE DigitVal(Head(s)) * (unit \div 10) + FracValue(Tail(s), unit \div 10)

\* int(s): surrounding whitespace is ignored, then decimal digits only.
PyInt(s) ==
    LET t == Strip(s)
    IN IF t # <<>> /\ AllDigits(t) THEN Num(DigitsValue(t), 0) ELSE Raise

\* float(s): surrounding whitespace is ignored; "nan" is the float NaN;
\* digits with at most one point and at least one digit are a number.
\* (Signs, exponents, underscores and "inf" need characters that no input
\* of the model holds.)
PyFloat(s) ==
    LET t == Strip(s)
        p == SplitOnce(t, ".")
        whole == p[1]
        frac == IF Len(p) = 2 THEN p[2] ELSE <<>>
    IN IF t = <<"n", "a", "n">> THEN NaN
       ELSE IF AllDigits(whole) /\ AllDigits(frac) /\ Len(whole) + Len(frac) > 0
            THEN Num(DigitsValue(whole), FracValue(frac, Scale))
            ELSE Raise

\* a + b on floats: an exception in either operand propagates, NaN absorbs
Add(a, b) ==
    IF a = Raise \/ b = Raise THEN Raise
    ELSE IF a = NaN \/ b = NaN THEN NaN
    ELSE Carry(a.w + b.w, a.f + b.f)

\* a * n for an int literal n
MulK(a, n) == IF a \in {Raise, NaN} THEN a ELSE Carry(a.w * n, a.f * n)

\* a / n for an int literal n
DivK(a, n) ==
    IF a \in {Raise, NaN} THEN a
    ELSE Num(a.w \div n, ((a.w % n) * Scale + a.f) \div n)

-----------------------------------------------------------------------------
(* time_to_seconds *)

\* The body of the try block.
TimeBody(time_str) ==
    LET clean_str == ReplaceChar(Strip(PyStr(time_str)), "\"", "'")
    IN IF Contains(clean_str, "h")
       THEN LET hs == SplitOnce(clean_str, "h")
                ms == SplitOnce(hs[2], "'")
            IN IF Len(ms) # 2 THEN Raise   \* unpacking one value into two names
               ELSE Add(Add(MulK(PyInt(hs[1]), 3600), MulK(PyInt(ms[1]), 60)),
                        PyFloat(RemoveChar(ms[2], "'")))
       ELSE LET parts == SelectSeq(SplitAll(clean_str, "'"), NonEmpty)
            IN IF Len(parts) = 2
               THEN Add(MulK(PyFloat(parts[1]), 60), PyFloat(parts[2]))
               ELSE IF Len(parts) = 3
               THEN Add(Add(MulK(PyFloat(parts[1]), 60), PyFloat(parts[2])),
                        DivK(PyFloat(parts[3]), 100))
               ELSE PyFloat(ReplaceChar(clean_str, "'", "."))

\* Mutant: the function without its except clause.
time_to_seconds_no_except(time_str) == TimeBody(time_str)

\* Mutant: the third token added as seconds instead of hundredths.
time_to_seconds_no_hundredths(time_str) ==
    LET clean_str == ReplaceChar(Strip(PyStr(time_str)), "\"", "'")
        parts == SelectSeq(SplitAll(clean_str, "'"), NonEmpty)
        r == IF ~Contains(clean_str, "h") /\ Len(parts) = 3
             THEN Add(Add(MulK(PyFloat(parts[1]), 60), PyFloat(parts[2])),
                      PyFloat(parts[3]))
             ELSE TimeBody(time_str)
    IN IF r = Raise THEN Num(0, 0) ELSE r

time_to_seconds(time_str) ==
    LET r == TimeBody(time_str)
    IN IF r = Raise THEN Num(0, 0) ELSE r

-----------------------------------------------------------------------------
(* event_to_meters *)

Road5 == <<"5", "k", "m", " ", "R", "o", "a", "d">>
Road10 == <<"1", "0", "k", "m", " ", "R", "o", "a", "d">>
Road20 == <<"2", "0", "k", "m", " ", "R", "o", "a", "d">>
HalfMarathon == <<"1", "/", "2", " ", "M", "a", "r", "a", "t", "h", "o", "n">>

\* Mutant: the road races at their nominal distance, without the +1 offset.
road_events_nominal(event) ==
    CASE event = Road5 -> Num(5000, 0)
      [] event = Road10 -> Num(10000, 0)
      [] event = Road20 -> Num(20000, 0)
      [] event = HalfMarathon -> Num(21097, Scale \div 2)
      [] OTHER -> Num(0, 0)

\* road_events.get(event, 0)
road_events(event) ==
    CASE event = Road5 -> Num(5001, 0)
      [] event = Road10 -> Num(10001, 0)
      [] event = Road20 -> Num(20001, 0)
      [] event = HalfMarathon -> Num(21097, Scale \div 2)
      [] OTHER -> Num(0, 0)

\* The length of the longest prefix of s made of digits.
RECURSIVE DigitRun(_)
DigitRun(s) == IF s # <<>> /\ Head(s) \in Digits THEN 1 + DigitRun(Tail(s)) ELSE 0

\* re.match(r'(\d+)m', tok): group 1, or <<>> when there is no match.  The
\* pattern is anchored at the start of tok only.
MatchDigitsM(tok) ==
    LET n == DigitRun(tok)
    IN IF n > 0 /\ n < Len(tok) /\ tok[n + 1] = "m" THEN SubSeq(tok, 1, n) ELSE <<>>

\* The body of the try block.
EventBody(event) ==
    LET e == PyStr(event)
        toks == WhitespaceSplit(e)
    IN IF toks = <<>> THEN Raise   \* event.split()[0] on no token
       ELSE LET g == MatchDigitsM(toks[1])
            IN IF g # <<>> THEN PyFloat(g) ELSE road_events(e)

event_to_meters(event) ==
    LET r == EventBody(event)
    IN IF r = Raise THEN Num(0, 0) ELSE r


-----------------------------------------------------------------------------
(* Parser calls on enumerated inputs *)

\* st.session_state.sort as the first run sets it
InitialSort == [column |-> "Event", ascending |-> TRUE]

\* The characters of the enumerated strings: a digit, both separators, the
\* decimal point, whitespace, the hour and meter letters, and the letters of
\* "nan" (which also serve as garbage).
Alphabet == {"1", "'", "\"", ".", " ", "h", "m", "n", "a"}

BoundedStrings == UNION {[1..n -> Alphabet] : n \in 0..MaxLen}

T_Hour == <<"2", "h", "0", "3", "'", "4", "5", ".", "6", "7">>
T_Three == <<"3", "'", "4", "5", "\"", "6", "7">>
T_Plain == <<"4", "5", ".", "3", "0">>
T_HourQuote == <<"1", "h", "0", "2", "'", "0", "3", "\"">>
T_HourInner == <<"1", "h", "0", "2", "'", "0", "3", "'", "4">>
T_FourTokens == <<"1", "'", "2", "'", "3", "'", "4">>
T_HourNoMinutes == <<"1", "h", "3", "0">>
T_TwoFrac == <<"1", ".", "5", "'", "3", "0">>

E_800Indoor == <<"8", "0", "0", "m", " ", "I", "n", "d", "o", "o", "r">>
E_10Miles == <<"1", "0", " ", "M", "i", "l", "e", "s">>
E_5000m == <<"5", "0", "0", "0", "m">>
E_60mH == <<"6", "0", "m", "H">>
E_Road5Padded == <<" ">> \o Road5

Examples ==
    {T_Hour, T_Three, T_Plain, T_HourQuote, T_HourInner, T_FourTokens,
     T_HourNoMinutes, T_TwoFrac,
     E_800Indoor, E_10Miles, E_5000m, E_60mH, E_Road5Padded,
     Road5, Road10, Road20, HalfMarathon}

\* What a record field can hold after json.load: text, a number, null.
Inputs ==
    {Str(s) : s \in BoundedStrings \cup Examples} \cup {JNum(0), JNum(45), JNull}

NoCall == [k |-> "none"]

ParseInit ==
    /\ arg \in Inputs
    /\ fn = "none"
    /\ ret = NoCall
    /\ sort = InitialSort
    /\ df = <<>>
    /\ clicked = "none"
    /\ shown = <<>>
    /\ warned = FALSE
    /\ status = "idle"

CallTimeToSeconds ==
    /\ fn = "none"
    /\ fn' = "time_to_seconds"
    /\ ret' = time_to_seconds(arg)
    /\ UNCHANGED <<arg, sort, df, clicked, shown, warned, status>>

CallEventToMeters ==
    /\ fn = "none"
    /\ fn' = "event_to_meters"
    /\ ret' = event_to_meters(arg)
    /\ UNCHANGED <<arg, sort, df, clicked, shown, warned, status>>

ParseNext == CallTimeToSeconds \/ CallEventToMeters

ParseSpec == ParseInit /\ [][ParseNext]_vars

-----------------------------------------------------------------------------
(* The dashboard: records, sort key, DataFrame.sort_values *)

\* columns, in display order
Columns == <<"Event", "Time", "Category", "Club", "Region", "Location", "Date">>

ColumnSet == {Columns[i] : i \in 1..Len(Columns)}

\* The characters of the record texts, in code point order.
CharTable ==
    <<" ", "\"", "'", ".", "/",
      "0", "1", "2", "3", "4", "5", "6", "7", "8", "9",
      "A", "B", "E", "J", "L", "M", "N", "R", "S", "U",
      "a", "b", "c", "d", "e", "h", "i", "k", "l", "m", "n", "o", "s",
      "t", "y", "z">>

Ord(c) == CHOOSE i \in 1..Len(CharTable) : CharTable[i] = c

\* a < b on str: by code point, a proper prefix first
RECURSIVE StrLess(_, _)
StrLess(a, b) ==
    IF b = <<>> THEN FALSE
    ELSE IF a = <<>> THEN TRUE
    ELSE IF Head(a) = Head(b) THEN StrLess(Tail(a), Tail(b))
    ELSE Ord(Head(a)) < Ord(Head(b))

D_5Mar == <<"0", "5", "/", "0", "3", "/", "2", "0", "2", "1">>
D_12Jan == <<"1", "2", "/", "0", "1", "/", "2", "0", "2", "1">>
D_20Feb == <<"2", "0", "/", "0", "2", "/", "2", "0", "2", "1">>
D_Unknown == <<"n", "/", "a">>

E_800m == <<"8", "0", "0", "m">>
E_400m == <<"4", "0", "0", "m">>
T_205 == <<"2", "'", "0", "5", "\"", "3", "0">>
T_1542 == <<"1", "5", "'", "4", "2">>
T_584 == <<"5", "8", ".", "4">>
T_210 == <<"2", "'", "1", "0", "\"", "0", "5">>

Rec(ev, ti, ca, cl, re, lo, da) ==
    [Event |-> Str(ev), Time |-> Str(ti), Category |-> Str(ca), Club |-> cl,
     Region |-> Str(re), Location |-> Str(lo), Date |-> Str(da)]

R_800a ==
    Rec(E_800m, T_205, <<"S", "E">>, Str(<<"A", "C">>), <<"N">>,
        <<"L", "y", "o", "n">>, D_5Mar)
R_5km ==
    Rec(Road5, T_1542, <<"M", "1">>, Str(<<"A", "C">>), <<"S">>,
        <<"N", "i", "c", "e">>, D_12Jan)
R_400 ==
    Rec(E_400m, T_584, <<"S", "E">>, Str(<<"B">>), <<"N">>,
        <<"A", "l", "b", "i">>, D_Unknown)
R_800b ==
    Rec(E_800m, T_210, <<"J", "U">>, JNum(7), <<"E">>,
        <<"M", "e", "t", "z">>, D_20Feb)
R_10mi ==
    Rec(E_10Miles, T_HourQuote, <<"M", "1">>, Str(<<"B">>), <<"S">>,
        <<"L", "i", "l", "l", "e">>, <<>>)

\* The records an athlete of athletes.json may hold.  Club is text in most
\* and a JSON number in one; two have a Date that is no date.
RecordPool == {R_800a, R_5km, R_400, R_800b, R_10mi}

\* athletes[athlete]: at least one record, no record twice
Frames ==
    UNION {{r \in [1..n -> RecordPool] : \A i, j \in 1..n : r[i] = r[j] => i = j} :
             n \in 1..MaxRecords}

\* pd.to_datetime(text, dayfirst=True, errors='coerce') on one text:
\* D/M/Y read day first, as a number that orders dates; NaT (NaN here) for
\* anything else.
to_datetime(v) ==
    LET p == SplitAll(v.s, "/")
    IN IF /\ Len(p) = 3
          /\ \A i \in 1..3 : p[i] # <<>> /\ AllDigits(p[i])
          /\ DigitsValue(p[1]) \in 1..31
          /\ DigitsValue(p[2]) \in 1..12
       THEN Num((DigitsValue(p[3]) * 12 + DigitsValue(p[2])) * 31 + DigitsValue(p[1]), 0)
       ELSE NaN

\* Mutant: every column sorted on its own text.
sort_mapping_identity(sort_col) == sort_col

\* sort_mapping.get(sort_col, sort_col)
sort_mapping(sort_col) ==
    CASE sort_col = "Event" -> "_event_m"
      [] sort_col = "Time" -> "_time_sec"
      [] sort_col = "Date" -> "_date"
      [] OTHER -> sort_col

DerivedColumns == {"_time_sec", "_event_m", "_date"}

\* "Prepare sortable columns": the rows of df, each with its three derived
\* columns computed from its Time, Event and Date.
DataFrame(records) ==
    [i \in 1..Len(records) |->
        [c \in ColumnSet \cup DerivedColumns |->
            CASE c = "_time_sec" -> time_to_seconds(records[i]["Time"])
              [] c = "_event_m" -> event_to_meters(records[i]["Event"])
              [] c = "_date" -> to_datetime(records[i]["Date"])
              [] OTHER -> records[i][c]]]

\* df[by] of one row
Cell(row, by) == row[by]

\* isna: NaN, NaT and None
IsNA(x) == x = NaN \/ x = JNull

IsValue(x) == "k" \in DOMAIN x

\* a < b on the values of one column; comparing str with int raises
Less(a, b) ==
    IF IsValue(a) THEN a.w < b.w \/ (a.w = b.w /\ a.f < b.f)
    ELSE IF a.t = "str" THEN StrLess(a.s, b.s)
    ELSE a.n < b.n

\* '<' not supported between instances of 'str' and 'int'
MixedTypes(cells) ==
    \E i, j \in 1..Len(cells) :
        /\ ~IsNA(cells[i]) /\ ~IsNA(cells[j])
        /\ ~IsValue(cells[i]) /\ ~IsValue(cells[j])
        /\ cells[i].t # cells[j].t

IndexOrders(n) ==
    {p \in [1..n -> 1..n] : \A i, j \in 1..n : p[i] = p[j] => i = j}

\* Mutant: a descending sort as the ascending order reversed, missing
\* values included.
sort_values_reversed(rows, by, ascending) ==
    LET n == Len(rows)
        cells == [i \in 1..n |-> Cell(rows[i], by)]
        asc == {p \in IndexOrders(n) :
                  \A i, j \in 1..n : i < j =>
                      /\ (IsNA(cells[p[i]]) => IsNA(cells[p[j]]))
                      /\ (~IsNA(cells[p[i]]) /\ ~IsNA(cells[p[j]]))
                            => ~Less(cells[p[j]], cells[p[i]])
                      /\ (IsNA(cells[p[i]]) /\ IsNA(cells[p[j]])) => p[i] < p[j]}
    IN IF MixedTypes(cells) THEN [raised |-> TRUE, orders |-> {}]
       ELSE [raised |-> FALSE,
             orders |-> IF ascending THEN asc
                        ELSE {[i \in 1..n |-> p[n + 1 - i]] : p \in asc}]

\* Mutant: the ascending flag ignored.
sort_values_ascending_only(rows, by, ascending) ==
    LET n == Len(rows)
        cells == [i \in 1..n |-> Cell(rows[i], by)]
    IN IF MixedTypes(cells) THEN [raised |-> TRUE, orders |-> {}]
       ELSE [raised |-> FALSE,
             orders |-> {p \in IndexOrders(n) :
                  \A i, j \in 1..n : i < j =>
                      /\ (IsNA(cells[p[i]]) => IsNA(cells[p[j]]))
                      /\ (~IsNA(cells[p[i]]) /\ ~IsNA(cells[p[j]]))
                            => ~Less(cells[p[j]], cells[p[i]])
                      /\ (IsNA(cells[p[i]]) /\ IsNA(cells[p[j]])) => p[i] < p[j]}]

\* df.sort_values(by, ascending=ascending, na_position='last'), with the
\* default kind='quicksort': the index orders the call may return, or that it
\* raised.  The rows with a value come first, in the order of their values;
\* quicksort is not stable, so rows with equal values come in any order.  The
\* rows without one follow, in index order.
sort_values(rows, by, ascending) ==
    LET n == Len(rows)
        cells == [i \in 1..n |-> Cell(rows[i], by)]
    IN IF MixedTypes(cells) THEN [raised |-> TRUE, orders |-> {}]
       ELSE [raised |-> FALSE,
             orders |-> {p \in IndexOrders(n) :
                  \A i, j \in 1..n : i < j =>
                      /\ (IsNA(cells[p[i]]) => IsNA(cells[p[j]]))
                      /\ (~IsNA(cells[p[i]]) /\ ~IsNA(cells[p[j]]))
                            => IF ascending
                               THEN ~Less(cells[p[j]], cells[p[i]])
                               ELSE ~Less(cells[p[i]], cells[p[j]])
                      /\ (IsNA(cells[p[i]]) /\ IsNA(cells[p[j]])) => p[i] < p[j]}]

\* Mutant: a click on the current column leaves the direction as it is.
ButtonNoToggle(s, col) ==
    IF col = "none" THEN s
    ELSE IF s.column = col THEN s
    ELSE [column |-> col, ascending |-> TRUE]

\* The seven st.button calls of one run: col is the button that returned
\* True, or "none".
Button(s, col) ==
    IF col = "none" THEN s
    ELSE IF s.column = col THEN [s EXCEPT !.ascending = ~s.ascending]
    ELSE [column |-> col, ascending |-> TRUE]

\* "Apply sorting" and "Display table": how a run ends for the rows and the
\* sort key.  An exception out of the except clause ends the run before the
\* table is written.
Outcomes(rows, s) ==
    LET sort_col == s.column
        sort_asc == s.ascending
        sort_by == sort_mapping(sort_col)
        first == sort_values(rows, sort_by, sort_asc)
        second == sort_values(rows, sort_col, sort_asc)
    IN IF ~first.raised
       THEN {[shown |-> p, warned |-> FALSE, status |-> "table"] : p \in first.orders}
       ELSE IF ~second.raised
       THEN {[shown |-> p, warned |-> TRUE, status |-> "table"] : p \in second.orders}
       ELSE {[shown |-> <<>>, warned |-> TRUE, status |-> "exception"]}

\* The rest of a run once the buttons are handled: the table for sort key s
\* is written, or the run ends in an exception.
Display(s) ==
    \E o \in Outcomes(df, s) :
        /\ shown' = o.shown
        /\ warned' = o.warned
        /\ status' = o.status

\* A run of main() in which the button of column col returned True.
ClickColumn ==
    \E col \in ColumnSet :
        /\ clicked' = col
        /\ sort' = Button(sort, col)
        /\ Display(Button(sort, col))
        /\ UNCHANGED <<df, fn, arg, ret>>

\* A run of main() without a click (any other widget event).
Rerun ==
    /\ clicked' = "none"
    /\ sort' = Button(sort, "none")
    /\ Display(Button(sort, "none"))
    /\ UNCHANGED <<df, fn, arg, ret>>

\* The first run of the session: the sort key is initialized, no button is
\* pressed, the table is sorted and displayed.
Init ==
    /\ df \in {DataFrame(records) : records \in Frames}
    /\ sort = InitialSort
    /\ clicked = "none"
    /\ \E o \in Outcomes(df, InitialSort) :
          /\ shown = o.shown
          /\ warned = o.warned
          /\ status = o.status
    /\ fn = "none"
    /\ arg = Str(<<>>)
    /\ ret = [k |-> "none"]

Next == ClickColumn \/ Rerun

Spec == Init /\ [][Next]_vars

-----------------------------------------------------------------------------
(* The time and distance grammars, as the specification words them *)

\* Trimmed, with " read as '.
Normalized(s) == ReplaceChar(Strip(s), "\"", "'")

\* Digits with an optional decimal point: a number with optional fraction.
IsDecimal(s) ==
    /\ \A i \in 1..Len(s) : s[i] \in Digits \cup {"."}
    /\ Cardinality({i \in 1..Len(s) : s[i] = "."}) <= 1
    /\ \E i \in 1..Len(s) : s[i] \in Digits

PointOf(s) ==
    LET dots == {i \in 1..Len(s) : s[i] = "."}
    IN IF dots = {} THEN Len(s) + 1 ELSE CHOOSE i \in dots : TRUE

\* The whole part of a decimal.
Whole(s) == DigitsValue(SubSeq(s, 1, PointOf(s) - 1))

\* The fraction of a decimal, in units of 1/Scale.
Fraction(s) ==
    LET f == SubSeq(s, PointOf(s) + 1, Len(s))
    IN (DigitsValue(f) * Scale) \div (10 ^ Len(f))

\* whole + units/Scale as a number
Value(whole, units) == [k |-> "num", w |-> whole + units \div Scale, f |-> units % Scale]

IsDigits(s) == s # <<>> /\ \A i \in 1..Len(s) : s[i] \in Digits

\* The places <<i, j>> of the h and of the separator of <H>h<M>'<S>.
HourSplits(s) ==
    {p \in (1..Len(s)) \X (1..Len(s)) :
        /\ p[1] < p[2]
        /\ s[p[1]] = "h"
        /\ s[p[2]] = "'"
        /\ IsDigits(SubSeq(s, 1, p[1] - 1))
        /\ IsDigits(SubSeq(s, p[1] + 1, p[2] - 1))
        /\ IsDecimal(SubSeq(s, p[2] + 1, Len(s)))}

IsHourForm(s) == HourSplits(s) # {}

HourValue(s) ==
    LET p == CHOOSE q \in HourSplits(s) : TRUE
        S == SubSeq(s, p[2] + 1, Len(s))
    IN Value(DigitsValue(SubSeq(s, 1, p[1] - 1)) * 3600
               + DigitsValue(SubSeq(s, p[1] + 1, p[2] - 1)) * 60 + Whole(S),
             Fraction(S))

\* The non-empty pieces between separators.
Tokens(s) == SelectSeq(SplitAll(s, "'"), NonEmpty)

AllDecimal(toks) == \A i \in 1..Len(toks) : IsDecimal(toks[i])

\* The event label's leading whitespace-delimited token starts with
\* <digits>m (800m, and also the hurdles label 60mH): the number of digits,
\* or 0 when it does not.
LeadingMeters(s) ==
    LET toks == WhitespaceSplit(s)
        tok == IF toks = <<>> THEN <<>> ELSE toks[1]
        ns == {n \in 1..(Len(tok) - 1) :
                 IsDigits(SubSeq(tok, 1, n)) /\ tok[n + 1] = "m"}
    IN IF ns = {} THEN 0 ELSE CHOOSE n \in ns : TRUE

RoadTable ==
    {<<Road5, Value(5001, 0)>>, <<Road10, Value(10001, 0)>>,
     <<Road20, Value(20001, 0)>>, <<HalfMarathon, Value(21097, (5 * Scale) \div 10)>>}

-----------------------------------------------------------------------------
(* Claims on the parsers, checked under ParseSpec *)

\* C6: time_to_seconds, on the trimmed input with " read as ', returns
\* H*3600 + M*60 + S for the hour form <H>h<M>'<S>; otherwise M*60 + S for
\* exactly two tokens and M*60 + S + C/100 for exactly three; otherwise the
\* input with separators replaced by a decimal point, read as a number.
\* 2h03'45.67 gives 7425.67, 3'45"67 gives 225.67 and 45.30 gives 45.30.
C6_TimeGrammar ==
    (fn = "time_to_seconds" /\ arg.t = "str") =>
        LET s == Normalized(arg.s)
            toks == Tokens(s)
            plain == ReplaceChar(s, "'", ".")
        IN /\ IsHourForm(s) => ret = HourValue(s)
           /\ (~IsHourForm(s) /\ Len(toks) = 2 /\ AllDecimal(toks)) =>
                 ret = Value(Whole(toks[1]) * 60 + Whole(toks[2]),
                             Fraction(toks[1]) * 60 + Fraction(toks[2]))
           /\ (~IsHourForm(s) /\ Len(toks) = 3 /\ AllDecimal(toks)) =>
                 ret = Value(Whole(toks[1]) * 60 + Whole(toks[2]),
                             Fraction(toks[1]) * 60 + Fraction(toks[2])
                               + (Whole(toks[3]) * Scale + Fraction(toks[3])) \div 100)
           /\ (~IsHourForm(s) /\ Len(toks) \notin {2, 3} /\ IsDecimal(plain)) =>
                 ret = Value(Whole(plain), Fraction(plain))
           /\ arg.s = T_Hour => ret = Value(7425, (67 * Scale) \div 100)
           /\ arg.s = T_Three => ret = Value(225, (67 * Scale) \div 100)
           /\ arg.s = T_Plain => ret = Value(45, (30 * Scale) \div 100)

\* C6 witness: the three-token form was parsed, hundredths included.
C6_Witness ==
    /\ fn = "time_to_seconds"
    /\ arg = Str(T_Three)
    /\ ret = Value(225, (67 * Scale) \div 100)

\* C7: event_to_meters returns the numeric prefix when the leading token
\* matches <digits>m, otherwise the table value when the whole string is a
\* road event, otherwise 0.  "800m Indoor" gives 800, "5km Road" gives 5001,
\* strictly more than "5000m", and "10 Miles" gives 0.
C7_EventMeters ==
    (fn = "event_to_meters" /\ arg.t = "str") =>
        LET n == LeadingMeters(arg.s)
            tok == WhitespaceSplit(arg.s)[1]
            rows == {r \in RoadTable : r[1] = arg.s}
        IN /\ n > 0 => ret = Value(DigitsValue(SubSeq(tok, 1, n)), 0)
           /\ (n = 0 /\ rows # {}) => \E r \in rows : ret = r[2]
           /\ (n = 0 /\ rows = {}) => ret = Value(0, 0)
           /\ arg.s = E_800Indoor => ret = Value(800, 0)
           /\ arg.s = Road5 => (ret = Value(5001, 0) /\ ret.w > 5000)
           /\ arg.s = E_5000m => ret = Value(5000, 0)
           /\ arg.s = E_10Miles => ret = Value(0, 0)

\* C7 witness: a road event was looked up in the table.
C7_Witness ==
    /\ fn = "event_to_meters"
    /\ arg = Str(Road5)
    /\ ret = Value(5001, 0)

\* C8: both parsers are total: for every input, string or not, the call
\* returns a float and never raises.
C8_Total == fn # "none" => IsFloat(ret)

\* C8 witness: the body raised on the empty string and the call returned 0.
C8_Witness ==
    /\ fn = "time_to_seconds"
    /\ arg = Str(<<>>)
    /\ TimeBody(arg) = Raise
    /\ ret = Value(0, 0)

\* The hour form read leniently: whitespace around H, M and S, and
\* separators after S (2h03'45") are accepted.
IsLenientHourForm(s) ==
    \E i, j \in 1..Len(s) :
        /\ i < j
        /\ s[i] = "h"
        /\ s[j] = "'"
        /\ IsDigits(Strip(SubSeq(s, 1, i - 1)))
        /\ IsDigits(Strip(SubSeq(s, i + 1, j - 1)))
        /\ \E e \in j..Len(s) :
              /\ IsDecimal(Strip(SubSeq(s, j + 1, e)))
              /\ \A x \in (e + 1)..Len(s) : s[x] = "'"

\* One of the three grammar forms, each read leniently (whitespace around a
\* number is accepted, as is a point without fraction digits).
MatchesTimeGrammar(s) ==
    LET toks == Tokens(s)
    IN \/ IsLenientHourForm(s)
       \/ /\ Len(toks) \in {2, 3}
          /\ \A i \in 1..Len(toks) : IsDecimal(Strip(toks[i]))
       \/ IsDecimal(ReplaceChar(s, "'", "."))

\* C9: every malformed input maps to the sentinel 0: time_to_seconds returns
\* 0 for every input that matches none of the three grammar forms,
\* event_to_meters returns 0 for every input with no leading <digits>m
\* token that is no road event, and both projections are always defined
\* numbers (no missing value).
C9_MalformedIsZero ==
    /\ (fn = "time_to_seconds" /\ arg.t = "str"
          /\ ~MatchesTimeGrammar(Normalized(arg.s))) => ret = Value(0, 0)
    /\ (fn = "event_to_meters" /\ arg.t = "str" /\ LeadingMeters(arg.s) = 0
          /\ \A r \in RoadTable : r[1] # arg.s) => ret = Value(0, 0)
    /\ fn # "none" => IsNum(ret)

-----------------------------------------------------------------------------
(* Claims on the render pass, checked under Spec *)

\* The comparator value of a record on a column, from the record's own text.
Comparator(row, col) ==
    CASE col = "Event" -> event_to_meters(row["Event"])
      [] col = "Time" -> time_to_seconds(row["Time"])
      [] col = "Date" -> to_datetime(row["Date"])
      [] OTHER -> row[col]

\* The place of row i of df in the displayed table.
Position(i) == CHOOSE k \in 1..Len(shown) : shown[k] = i

EventsOf(rows) == [i \in 1..Len(rows) |-> rows[i]["Event"].s]

Displayed == [k \in 1..Len(shown) |-> df[shown[k]]]

\* C1: the displayed records are the athlete's records ordered by the
\* comparator of the sort key's column (meters for Event, seconds for Time,
\* the day-first date for Date, the text otherwise), ascending or descending
\* as the key says; Events 800m, 5km Road, 400m sorted by Event ascending
\* are shown as 400m, 800m, 5km Road.
C1_Ordered ==
    status = "table" =>
        /\ shown \in IndexOrders(Len(df))
        /\ \A i, j \in 1..Len(shown) : i < j =>
              LET a == Comparator(df[shown[i]], sort.column)
                  b == Comparator(df[shown[j]], sort.column)
              IN (~IsNA(a) /\ ~IsNA(b)) =>
                    IF sort.ascending THEN ~Less(b, a) ELSE ~Less(a, b)
        /\ (sort = InitialSort /\ EventsOf(df) = <<E_800m, Road5, E_400m>>) =>
              EventsOf(Displayed) = <<E_400m, E_800m, Road5>>

\* C1 witness: the three events of the example, sorted by Event ascending.
C1_Witness ==
    /\ status = "table"
    /\ sort = InitialSort
    /\ EventsOf(df) = <<E_800m, Road5, E_400m>>
    /\ EventsOf(Displayed) = <<E_400m, E_800m, Road5>>

\* What a run does to the sort key, given the button pressed in it.
SortRule ==
    /\ clicked' \in ColumnSet \cup {"none"}
    /\ clicked' = "none" => sort' = sort
    /\ (clicked' # "none" /\ clicked' = sort.column) =>
          sort' = [column |-> sort.column, ascending |-> ~sort.ascending]
    /\ (clicked' # "none" /\ clicked' # sort.column) =>
          sort' = [column |-> clicked', ascending |-> TRUE]

\* C2: the sort key starts as (Event, ascending); a click on its own column
\* flips the direction, a click on another column sets (that column,
\* ascending), a run without a click leaves it; its column is always one of
\* the seven.
C2_SortKey ==
    /\ sort = InitialSort
    /\ [][SortRule]_vars
    /\ [](sort.column \in ColumnSet /\ sort.ascending \in BOOLEAN)

\* C2 witness: a second click on Time has flipped the direction.
C2_Witness ==
    /\ clicked = "Time"
    /\ sort = [column |-> "Time", ascending |-> FALSE]

\* C3: the sort is stable: two records with equal comparator values on the
\* sort key's column are displayed in their input order.
C3_Stable ==
    status = "table" =>
        \A i, j \in 1..Len(df) :
            (i < j /\ Comparator(df[i], sort.column) = Comparator(df[j], sort.column))
                => Position(i) < Position(j)

IsUnparsable(row) == to_datetime(row["Date"]) = NaN

\* C4: sorted by Date, every record whose Date is no date is displayed after
\* every record whose Date is one, ascending and descending.
C4_UnparsableLast ==
    (status = "table" /\ sort.column = "Date") =>
        \A i, j \in 1..Len(shown) :
            (IsUnparsable(df[shown[i]]) /\ ~IsUnparsable(df[shown[j]])) => j < i

\* C4 witness: a descending Date sort of records with and without a date.
C4_Witness ==
    /\ status = "table"
    /\ sort = [column |-> "Date", ascending |-> FALSE]
    /\ \E i, j \in 1..Len(df) : IsUnparsable(df[i]) /\ ~IsUnparsable(df[j])

NoTies(col) ==
    \A i, j \in 1..Len(df) :
        i # j => Comparator(df[i], col) # Comparator(df[j], col)

NoMissing(col) == \A i \in 1..Len(df) : ~IsNA(Comparator(df[i], col))

Reversed(s) == [k \in 1..Len(s) |-> s[Len(s) + 1 - k]]

\* C5 as claimed: on a column without equal comparator values, a click on the
\* column of an ascending table displays the exact reverse.
C5_ToggleReverses ==
    [][(status = "table" /\ sort.ascending /\ clicked' = sort.column
          /\ NoTies(sort.column))
        => (status' = "table" /\ shown' = Reversed(shown))]_vars

\* C5 as amended: on a column without equal comparator values and without a
\* missing one (a Date that is no date, a NaN time), a click on the column
\* of an ascending table displays the exact reverse.
C5_ToggleReversesPresent ==
    [][(status = "table" /\ sort.ascending /\ clicked' = sort.column
          /\ NoTies(sort.column) /\ NoMissing(sort.column))
        => (status' = "table" /\ shown' = Reversed(shown))]_vars

\* C5 witness: a same-column click has turned a table of several records,
\* all with distinct and present values, to descending.
C5_Witness ==
    /\ status = "table"
    /\ clicked = sort.column
    /\ ~sort.ascending
    /\ Len(df) >= 2
    /\ NoTies(sort.column)
    /\ NoMissing(sort.column)
    /\ \A k \in 1..(Len(shown) - 1) :
          Less(Comparator(df[shown[k + 1]], sort.column),
               Comparator(df[shown[k]], sort.column))

\* C10: when the comparator-based sort raises, the run reports a warning,
\* sorts by the raw text of the column and displays the table.
C10_FallbackDisplays ==
    warned => (status = "table" /\ shown \in IndexOrders(Len(df)))

=============================================================================
